---- MODULE Spec2Model ----
(***************************************************************************)
(* Model of nasa.py: main / fetch_neo_data / create_impact_map /           *)
(* calculate_impact_effects.                                               *)
(*                                                                         *)
(* A payload is the JSON mapping returned by the feed.  Of its keys only   *)
(* element_count and near_earth_objects are read by the program; the       *)
(* payload is the empty mapping exactly when both are absent.  The         *)
(* near_earth_objects mapping is a sequence of date buckets in dictionary  *)
(* iteration order.  A raw record carries the set of top-level / nested    *)
(* keys that are present, its diameter (a number) and its string-encoded   *)
(* velocity and miss distance.  The name of a record is its position in    *)
(* the flattened input, so it also serves as the identity of the object.   *)
(*                                                                         *)
(* The real-valued power laws of calculate_impact_effects are kept up to   *)
(* their sign (0 or 1): on non-negative arguments every result is a        *)
(* product of positive constants and positive powers of the arguments.     *)
(***************************************************************************)
EXTENDS Integers, Sequences, FiniteSets, TLC

VARIABLES entry, response, neo_data, m_created, overlays, all_neos,
          top_neos, ranked, idx, calc_calls, report, saved, fetched, pc, error

vars == <<entry, response, neo_data, m_created, overlays, all_neos,
          top_neos, ranked, idx, calc_calls, report, saved, fetched, pc, error>>

\* ---------------------------------------------------------------- bounds
MaxBucket1 == 2
MaxBucket2 == 9
MaxDirectLen == 2
MaxRank == 20

\* ------------------------------------------------------ program constants
TopN == 10

locations ==
  << <<407128, -740060>>,
     <<340522, -1182437>>,
     <<515074, -1278>>,
     <<356762, 1396503>>,
     <<488566, 23522>>,
     <<-338688, 1512093>>,
     <<194326, -991332>>,
     <<557558, 376173>>,
     <<286139, 772090>>,
     <<399042, 1164074>> >>

\* ---------------------------------------------------------------- inputs
AllKeys == {"name", "estimated_diameter", "relative_velocity",
            "miss_distance", "is_potentially_hazardous_asteroid"}

Diams == {1, 2}

Defects == {"name", "estimated_diameter", "relative_velocity",
            "miss_distance", "is_potentially_hazardous_asteroid",
            "zero_diameter", "zero_velocity"}

Min(a, b) == IF a <= b THEN a ELSE b

NeoRecord(uid, d) ==
  [name |-> uid, keys |-> AllKeys, diam |-> d, vel |-> "17",
   miss |-> "1000", hazardous |-> (d = 2)]

Defective(r, k) ==
  IF k \in AllKeys THEN [r EXCEPT !.keys = AllKeys \ {k}]
  ELSE IF k = "zero_diameter" THEN [r EXCEPT !.diam = 0]
  ELSE [r EXCEPT !.vel = "0"]

\* the flattened list f split into two date buckets after its first k records
Buckets(f, k) == << SubSeq(f, 1, k), SubSeq(f, k + 1, Len(f)) >>

\* well-formed feeds: every diameter pattern over two date buckets
RankFeeds ==
  UNION { UNION { { Buckets([i \in 1..(k + l) |-> NeoRecord(i, f[i])], k) :
                      f \in [1..(k + l) -> Diams] }
                  : l \in 0..MaxBucket2 } : k \in 0..MaxBucket1 }

\* feeds of n records with one defective record, of diameter d, at position
\* p; the other records have diameter 1
DefectFeeds ==
  UNION { { Buckets([i \in 1..n |->
                       IF i = p THEN Defective(NeoRecord(i, d), k)
                       ELSE NeoRecord(i, 1)],
                    Min(n, MaxBucket1)) :
              <<p, k, d>> \in (1..n) \X Defects \X Diams }
          : n \in 1..(MaxBucket1 + MaxBucket2) }

Feeds == RankFeeds \cup DefectFeeds \cup { <<>> }

Flatten(dates) ==
  LET RECURSIVE F(_)
      F(i) == IF i = 0 THEN <<>> ELSE F(i - 1) \o dates[i]
  IN F(Len(dates))

Payload(c, n, dates) ==
  [none |-> FALSE, has_count |-> c, has_neos |-> n,
   element_count |-> Len(Flatten(dates)), dates |-> dates]

NonePayload ==
  [none |-> TRUE, has_count |-> FALSE, has_neos |-> FALSE,
   element_count |-> 0, dates |-> <<>>]

\* element_count is absent only from payloads without records
Payloads ==
  { Payload(TRUE, TRUE, d) : d \in Feeds }
    \cup { Payload(c, n, <<>>) : <<c, n>> \in BOOLEAN \X BOOLEAN }

\* arguments of a direct call of create_impact_map
DirectArgs ==
  { p \in Payloads : Len(Flatten(p.dates)) <= MaxDirectLen } \cup { NonePayload }

\* Python truth value of neo_data: None and the empty mapping are falsy
Truthy(p) == ~p.none /\ (p.has_count \/ p.has_neos)

\* float() of the string-encoded numerics of the feed
ParseFloat(s) ==
  CASE s = "0" -> 0
    [] s = "17" -> 17
    [] s = "1000" -> 1000

\* ------------------------------------------------------- pure functions
Sign(x) == IF x = 0 THEN 0 ELSE 1

calculate_impact_effects(diameter_km, velocity_kmps) ==
  LET crater_diameter == Sign(diameter_km) * Sign(velocity_kmps)
      mass == Sign(diameter_km)
      energy_joules == mass * Sign(velocity_kmps)
      energy_megatons == energy_joules
      severe_damage == energy_megatons
      moderate_damage == energy_megatons
      light_damage == energy_megatons
  IN [crater_diameter |-> crater_diameter,
      energy_megatons |-> energy_megatons,
      severe_damage_radius |-> severe_damage,
      moderate_damage_radius |-> moderate_damage,
      light_damage_radius |-> light_damage]

\* the sort key of line 68
SortKey(x) == x.diam

\* x is placed behind every element whose key is at least its own, so equal
\* keys keep their input order (list.sort is stable, also with reverse=True)
InsertDesc_TiesFirst(s, x) ==
  LET n == Cardinality({i \in 1..Len(s) : SortKey(s[i]) > SortKey(x)})
  IN SubSeq(s, 1, n) \o <<x>> \o SubSeq(s, n + 1, Len(s))

InsertDesc_Ascending(s, x) ==
  LET n == Cardinality({i \in 1..Len(s) : SortKey(s[i]) <= SortKey(x)})
  IN SubSeq(s, 1, n) \o <<x>> \o SubSeq(s, n + 1, Len(s))

InsertDesc(s, x) ==
  LET n == Cardinality({i \in 1..Len(s) : SortKey(s[i]) >= SortKey(x)})
  IN SubSeq(s, 1, n) \o <<x>> \o SubSeq(s, n + 1, Len(s))

SortDesc(s) ==
  LET RECURSIVE S(_)
      S(i) == IF i = 0 THEN <<>> ELSE InsertDesc(S(i - 1), s[i])
  IN S(Len(s))

\* the key function raises KeyError on a record without the diameter key
SortRaises(s) == \E i \in 1..Len(s) : "estimated_diameter" \notin s[i].keys

TopSlice_NoCut(s) == s

TopSlice_Tail(s) == SubSeq(s, Len(s) - Min(TopN, Len(s)) + 1, Len(s))

TopSlice(s) == SubSeq(s, 1, Min(TopN, Len(s)))

site_for_Short(rank) == locations[(rank % (Len(locations) - 1)) + 1]

site_for(rank) == locations[(rank % Len(locations)) + 1]

\* lines 88-92 read the five fields in this order; the first absent one raises
LoopRaises(neo) == neo.keys # AllKeys

Overlay(shape, site, radius, color, tooltip, popup, neo) ==
  [shape |-> shape, location |-> site, radius |-> radius, color |-> color,
   tooltip |-> tooltip, popup |-> popup, owner |-> neo.name]

NeoOverlays_NoMarker(neo, site, effects) ==
  << Overlay("Circle", site, effects.crater_diameter * 500, "darkred", "Crater", TRUE, neo),
     Overlay("Circle", site, effects.severe_damage_radius * 1000, "orangered", "Severe Damage Zone", FALSE, neo),
     Overlay("Circle", site, effects.moderate_damage_radius * 1000, "yellow", "Moderate Damage Zone", FALSE, neo),
     Overlay("Circle", site, effects.light_damage_radius * 1000, "lightblue", "Light Damage Zone", FALSE, neo) >>

\* the five add_to(m) calls of one loop iteration, in program order
NeoOverlays(neo, site, effects) ==
  << Overlay("Circle", site, effects.crater_diameter * 500, "darkred", "Crater", TRUE, neo),
     Overlay("Circle", site, effects.severe_damage_radius * 1000, "orangered", "Severe Damage Zone", FALSE, neo),
     Overlay("Circle", site, effects.moderate_damage_radius * 1000, "yellow", "Moderate Damage Zone", FALSE, neo),
     Overlay("Circle", site, effects.light_damage_radius * 1000, "lightblue", "Light Damage Zone", FALSE, neo),
     Overlay("Marker", site, 0, IF neo.hazardous THEN "red" ELSE "blue", "Name", TRUE, neo) >>

Line(tag, num, val) == [line |-> tag, num |-> num, val |-> val]

\* the seven print calls at the end of one loop iteration
NeoLines(i, neo, effects) ==
  << Line("Name", i + 1, neo.name),
     Line("Diameter", 0, neo.diam),
     Line("Velocity", 0, ParseFloat(neo.vel)),
     Line("Impact Energy", 0, effects.energy_megatons),
     Line("Crater", 0, effects.crater_diameter),
     Line("Severe damage", 0, effects.severe_damage_radius),
     Line("Hazardous", 0, IF neo.hazardous THEN 1 ELSE 0) >>

\* ------------------------------------------------------------------ Init
Init ==
  /\ entry \in {"main", "direct"}
  /\ response \in IF entry = "direct" THEN DirectArgs ELSE Payloads
  /\ neo_data = IF entry = "direct" THEN response ELSE NonePayload
  /\ m_created = FALSE
  /\ overlays = <<>>
  /\ all_neos = <<>>
  /\ top_neos = <<>>
  /\ ranked = FALSE
  /\ idx = 0
  /\ calc_calls = <<>>
  /\ report = <<>>
  /\ saved = FALSE
  /\ fetched = "no"
  /\ pc = IF entry = "direct" THEN "create_impact_map" ELSE "main"
  /\ error = "none"

\* --------------------------------------------------------------- actions
\* main, lines 183-184, with fetch_neo_data returning response.json()
FetchOk ==
  /\ pc = "main"
  /\ report' = report \o <<Line("Fetching", 0, 0)>>
  /\ neo_data' = response
  /\ fetched' = "ok"
  /\ pc' = "main_check"
  /\ UNCHANGED <<entry, response, m_created, overlays, all_neos, top_neos,
                 ranked, idx, calc_calls, saved, error>>

\* main, lines 183-184, with fetch_neo_data catching an exception of the
\* request or of raise_for_status and returning None
FetchFail ==
  /\ pc = "main"
  /\ report' = report \o <<Line("Fetching", 0, 0), Line("Error fetching data", 0, 0)>>
  /\ neo_data' = NonePayload
  /\ fetched' = "failed"
  /\ pc' = "main_check"
  /\ UNCHANGED <<entry, response, m_created, overlays, all_neos, top_neos,
                 ranked, idx, calc_calls, saved, error>>

\* main, lines 186-187 and 195-196
MainCheck ==
  /\ pc = "main_check"
  /\ IF Truthy(neo_data)
     THEN IF neo_data.has_count
          THEN /\ report' = report \o <<Line("Total NEO count", 0, neo_data.element_count)>>
               /\ pc' = "create_impact_map"
               /\ error' = error
          ELSE /\ pc' = "raised"
               /\ error' = "KeyError"
               /\ report' = report
     ELSE /\ report' = report \o <<Line("Failed to fetch NEO data", 0, 0)>>
          /\ pc' = "done"
          /\ error' = error
  /\ UNCHANGED <<entry, response, neo_data, m_created, overlays, all_neos,
                 top_neos, ranked, idx, calc_calls, saved, fetched>>

\* create_impact_map, lines 56-71
CreateImpactMap ==
  /\ pc = "create_impact_map"
  /\ m_created' = TRUE
  /\ IF ~Truthy(neo_data) \/ ~neo_data.has_neos
     THEN /\ report' = report \o <<Line("No NEO data available", 0, 0)>>
          /\ pc' = "returned"
          /\ UNCHANGED <<all_neos, top_neos, ranked, error>>
     ELSE LET flat == Flatten(neo_data.dates) IN
          IF SortRaises(flat)
          THEN /\ all_neos' = flat
               /\ pc' = "raised"
               /\ error' = "KeyError"
               /\ UNCHANGED <<top_neos, ranked, report>>
          ELSE /\ all_neos' = SortDesc(flat)
               /\ top_neos' = TopSlice(all_neos')
               /\ ranked' = TRUE
               /\ report' = report \o <<Line("Found", 0, Len(all_neos'))>>
               /\ pc' = "loop"
               /\ error' = error
  /\ UNCHANGED <<entry, response, neo_data, overlays, idx, calc_calls, saved, fetched>>

\* one iteration of the loop of lines 87-178
LoopBody ==
  /\ pc = "loop"
  /\ idx < Len(top_neos)
  /\ LET neo == top_neos[idx + 1] IN
     IF LoopRaises(neo)
     THEN /\ pc' = "raised"
          /\ error' = "KeyError"
          /\ UNCHANGED <<overlays, calc_calls, report, idx>>
     ELSE LET diameter_km == neo.diam
              velocity_kmps == ParseFloat(neo.vel)
              effects == calculate_impact_effects(diameter_km, velocity_kmps)
              site == site_for(idx)
          IN /\ calc_calls' = Append(calc_calls, <<diameter_km, velocity_kmps>>)
             /\ overlays' = overlays \o NeoOverlays(neo, site, effects)
             /\ report' = report \o NeoLines(idx, neo, effects)
             /\ idx' = idx + 1
             /\ UNCHANGED <<pc, error>>
  /\ UNCHANGED <<entry, response, neo_data, m_created, all_neos, top_neos,
                 ranked, saved, fetched>>

\* line 180: the loop is exhausted, create_impact_map returns m
LoopExit ==
  /\ pc = "loop"
  /\ idx = Len(top_neos)
  /\ pc' = "returned"
  /\ UNCHANGED <<entry, response, neo_data, m_created, overlays, all_neos,
                 top_neos, ranked, idx, calc_calls, report, saved, fetched, error>>

\* main, lines 190-194
Save ==
  /\ pc = "returned"
  /\ entry = "main"
  /\ saved' = TRUE
  /\ report' = report \o <<Line("Map saved", 0, 0), Line("Open this file", 0, 0)>>
  /\ pc' = "done"
  /\ UNCHANGED <<entry, response, neo_data, m_created, overlays, all_neos,
                 top_neos, ranked, idx, calc_calls, fetched, error>>

\* a direct caller of create_impact_map receives m
Return ==
  /\ pc = "returned"
  /\ entry = "direct"
  /\ pc' = "done"
  /\ UNCHANGED <<entry, response, neo_data, m_created, overlays, all_neos,
                 top_neos, ranked, idx, calc_calls, report, saved, fetched, error>>

Next ==
  \/ FetchOk
  \/ FetchFail
  \/ MainCheck
  \/ CreateImpactMap
  \/ LoopBody
  \/ LoopExit
  \/ Save
  \/ Return

Spec == Init /\ [][Next]_vars

\* ---------------------------------------------------------------- claims
FlatInput == Flatten(response.dates)

Selected(x) == \E i \in 1..Len(top_neos) : top_neos[i].name = x.name

NameLines == SelectSeq(report, LAMBDA l : l.line = "Name")

Terminated == pc \in {"done", "raised"}

WellFormedInput ==
  \A k \in 1..Len(FlatInput) :
    /\ FlatInput[k].keys = AllKeys
    /\ FlatInput[k].diam > 0
    /\ ParseFloat(FlatInput[k].vel) > 0

\* C1: once the ranking of lines 68-69 has run, the number of selected NEOs
\* is min(10, L), L being the number of records of the flattened input.
C1_TopCount ==
  ranked => Len(top_neos) = Min(10, Len(FlatInput))

C1_Witness ==
  /\ WellFormedInput
  /\ ranked
  /\ Len(FlatInput) = 11
  /\ Len(top_neos) = 10

\* C2: the selected NEOs are distinct records of the flattened input and no
\* unselected record is larger than a selected one.
C2_Largest ==
  ranked =>
    /\ \A i, j \in 1..Len(top_neos) : i # j => top_neos[i].name # top_neos[j].name
    /\ \A i \in 1..Len(top_neos) : \E k \in 1..Len(FlatInput) : FlatInput[k] = top_neos[i]
    /\ \A k \in 1..Len(FlatInput) :
         ~Selected(FlatInput[k]) =>
           \A i \in 1..Len(top_neos) : FlatInput[k].diam <= top_neos[i].diam

C2_Witness ==
  /\ WellFormedInput
  /\ ranked
  /\ Len(response.dates) = 2
  /\ response.dates[1] # <<>>
  /\ FlatInput[1].diam = 1
  /\ ~Selected(FlatInput[1])
  /\ \E i \in 1..Len(top_neos) : top_neos[i].diam = 2 /\ top_neos[i].name > 2

\* C3: the ranked output is non-increasing in diameter, and the loop has
\* processed exactly the first idx ranks, in rank order.
C3_RankOrder ==
  ranked =>
    /\ \A i \in 1..(Len(top_neos) - 1) : top_neos[i].diam >= top_neos[i + 1].diam
    /\ Len(calc_calls) = idx
    /\ Len(NameLines) = idx
    /\ \A k \in 1..idx :
         /\ calc_calls[k][1] = top_neos[k].diam
         /\ NameLines[k].num = k
         /\ NameLines[k].val = top_neos[k].name
         /\ overlays[5 * (k - 1) + 1].owner = top_neos[k].name

C3_Witness ==
  /\ WellFormedInput
  /\ ranked
  /\ idx = 10
  /\ top_neos[1].diam > top_neos[10].diam
  /\ FlatInput[1].diam < FlatInput[2].diam

\* C4: selected NEOs of equal diameter keep their input order, and of two
\* equal records on either side of the cutoff the earlier one is selected.
C4_Stable ==
  ranked =>
    /\ \A i, j \in 1..Len(top_neos) :
         (i < j /\ top_neos[i].diam = top_neos[j].diam)
           => top_neos[i].name < top_neos[j].name
    /\ \A k \in 1..Len(FlatInput) : \A i \in 1..Len(top_neos) :
         (~Selected(FlatInput[k]) /\ FlatInput[k].diam = top_neos[i].diam)
           => top_neos[i].name < FlatInput[k].name

C4_Witness ==
  /\ WellFormedInput
  /\ ranked
  /\ Len(FlatInput) = 11
  /\ ~Selected(FlatInput[11])
  /\ FlatInput[11].diam = top_neos[10].diam
  /\ top_neos[1].diam = top_neos[2].diam
  /\ top_neos[1].diam > top_neos[10].diam

\* C5: when create_impact_map has returned with n selected NEOs, the map
\* holds 5*n overlays: per rank, in rank order, crater, severe, moderate and
\* light circle and marker of the NEO of that rank.
C5_OverlayBlocks ==
  (pc \in {"returned", "done"} /\ m_created) =>
    /\ Len(overlays) = 5 * Len(top_neos)
    /\ \A r \in 0..(Len(top_neos) - 1) :
         /\ \A q \in 1..5 : overlays[5 * r + q].owner = top_neos[r + 1].name
         /\ \A q \in 1..4 : overlays[5 * r + q].shape = "Circle"
         /\ overlays[5 * r + 1].color = "darkred"
         /\ overlays[5 * r + 2].color = "orangered"
         /\ overlays[5 * r + 3].color = "yellow"
         /\ overlays[5 * r + 4].color = "lightblue"
         /\ overlays[5 * r + 5].shape = "Marker"

C5_Witness ==
  /\ WellFormedInput
  /\ pc = "done"
  /\ Len(top_neos) = 10
  /\ Len(overlays) = 50
  /\ overlays[50].color = "red"

\* C6: the overlays of rank r are centred on entry r mod 10 of the fixed
\* location list, and the site of a rank equals the site of that rank + 10.
C6_CyclicSites ==
  /\ \A p \in 1..Len(overlays) :
       overlays[p].location = locations[(((p - 1) \div 5) % 10) + 1]
  /\ \A r \in 0..MaxRank : site_for(r) = site_for(r + 10)
  /\ Len(locations) = 10

C6_Witness ==
  /\ WellFormedInput
  /\ Len(overlays) = 50
  /\ overlays[50].location = <<399042, 1164074>>
  /\ overlays[1].location = <<407128, -740060>>

\* C7: on a payload whose near_earth_objects is empty or absent the program
\* ends without raising, with no overlay and with a report line saying that
\* zero NEOs were found.
C7_EmptyNotFatal ==
  (Terminated /\ ~neo_data.none /\ Flatten(neo_data.dates) = <<>>) =>
    /\ pc = "done"
    /\ overlays = <<>>
    /\ \E i \in 1..Len(report) : report[i] = Line("Found", 0, 0)

\* C8: calculate_impact_effects is never called with a non-positive diameter
\* or velocity, and no overlay belongs to a record with such a value.
C8_NoDegenerateCalc ==
  /\ \A k \in 1..Len(calc_calls) : calc_calls[k][1] > 0 /\ calc_calls[k][2] > 0
  /\ \A p \in 1..Len(overlays) : \A k \in 1..Len(FlatInput) :
       FlatInput[k].name = overlays[p].owner
         => FlatInput[k].diam > 0 /\ ParseFloat(FlatInput[k].vel) > 0

\* C9: when a record of the input lacks a required key, create_impact_map
\* ends with a missing-field error, no overlay and no report line of a record.
C9_MissingFieldNoEffects ==
  (/\ Terminated
   /\ m_created
   /\ neo_data.has_neos
   /\ \E k \in 1..Len(FlatInput) : FlatInput[k].keys # AllKeys) =>
    /\ pc = "raised"
    /\ error = "KeyError"
    /\ overlays = <<>>
    /\ NameLines = <<>>

\* C10: after a failed fetch the core never runs, nothing is drawn or saved
\* and the failure is reported; after a successful fetch the response is
\* passed to create_impact_map.
C10_FetchFailureAborts ==
  /\ fetched = "failed" =>
       /\ ~m_created
       /\ calc_calls = <<>>
       /\ overlays = <<>>
       /\ ~saved
       /\ pc = "done" => \E i \in 1..Len(report) :
                           report[i] = Line("Failed to fetch NEO data", 0, 0)
  /\ (fetched = "ok" /\ Terminated) => m_created

====
